---- MODULE Spec2Model ----
(***************************************************************************)
(* State-machine model of the RAG backend (src/rag-backend/src).           *)
(*                                                                         *)
(*   SpecEmbed  : EmbeddingGenerator.embed_text called from several        *)
(*                threads, with its rate-limit retry and the module-level  *)
(*                usage counter _tokens_used, and reset_token_counter.     *)
(*   SpecIngest : IngestionService.ingest_chapter against the document     *)
(*                table and the vector collection.                         *)
(*   SpecQuery  : the query entry points (main.query_content,              *)
(*                main.query_selected_text, simple_main.query_content,     *)
(*                RAGAgent.process_query).                                 *)
(*   SpecBatch  : embed_texts of both embedding generators applied to a    *)
(*                list of texts.                                           *)
(*   SpecRank   : RetrieverAgent.retrieve run twice over one index state,  *)
(*                with a lower and a higher min_similarity.                *)
(*   SpecContext: the places that assemble a context string from a chunk   *)
(*                list (RAGAgent._assemble_context, main.query_content,    *)
(*                RetrieverAgent.retrieve_with_context).                   *)
(*   SpecHeadings: DocumentChunker.chunk_by_headings applied to a document *)
(*                given line by line (level-1 and level-2 headings, body). *)
(*   SpecTruncate: the length checks of main.query_selected_text applied   *)
(*                to a selected text given word by word.                   *)
(*   SpecChunk  : DocumentChunker.chunk_by_tokens, and chunk_by_headings   *)
(*                on content without headings, applied to a text given     *)
(*                character by character.                                  *)
(***************************************************************************)
EXTENDS Integers, Sequences, FiniteSets, TLC

VARIABLES
    \* ---- embeddings.py ----
    tokens_used,    \* the dict bound to the module global _tokens_used
    dictGen,        \* identity of that dict object (reset rebinds the global)
    th,             \* per thread: position inside embed_text and its locals
    calls,          \* per thread: number of embed_text calls made so far
    resets,         \* number of reset_token_counter calls so far
    sure,           \* ghost: tokens of successful calls made since the last reset
    maybe,          \* ghost: tokens of successful calls that overlap the last reset
    \* ---- ingest_service.py, database.py, vector_store.py ----
    documents,      \* rows of the table "documents"
    collection,     \* points of the Qdrant collection
    ing,            \* per caller: position inside ingest_chapter and its locals
    ingests,        \* number of ingest_chapter calls so far
    completed,      \* ghost: <<content, book_version>> of the ingests that returned
                    \* without meeting a failure
    hash_seed,      \* the seed of the running interpreter's str hash
    \* ---- main.py, simple_main.py, agent.py, retrieval_service.py ----
    has_estimate_tokens, \* whether the object get_embedding_generator returns
                         \* defines estimate_tokens (CohereEmbeddingGenerator
                         \* does, EmbeddingGenerator does not)
    retriever_instance,  \* the module global _retriever_instance
    chat_sessions,       \* session ids with a row in the table "sessions"
    last,                \* the last query request, what its handler did and returned
    queries,             \* number of query requests so far
    \* ---- library functions applied to drawn inputs ----
    batch,          \* the last embed_texts call: its generator, input and result
    chunked,        \* the last chunker call: its content and the chunks returned
    ranked,         \* the last pair of retrieve runs over one index state
    assembled,      \* the last context assembly: its chunks and the contexts built
    headed,         \* the last chunk_by_headings call on a document given line by line
    trimmed         \* the last length check of a selected text given word by word

embedVars == <<tokens_used, dictGen, th, calls, resets, sure, maybe>>
ingestVars == <<documents, collection, ing, ingests, completed, hash_seed>>

queryVars == <<has_estimate_tokens, retriever_instance, chat_sessions, last, queries>>

libVars == <<batch, chunked, ranked, assembled, headed, trimmed>>

vars == <<embedVars, ingestVars, queryVars, libVars>>

-----------------------------------------------------------------------------
(* Helpers *)

RECURSIVE Pow2(_)
Pow2(n) == IF n = 0 THEN 1 ELSE 2 * Pow2(n - 1)


-----------------------------------------------------------------------------
(* embeddings.py : EmbeddingGenerator *)

Threads == {"t1", "t2"}

\* response.usage.prompt_tokens of a successful provider call
TokenCounts == {1, 2}

\* what self.client.embeddings.create can do
Outcomes == {"ok", "rate_limit", "connection", "other"}

MaxCalls == 1
MaxResets == 1

max_retries == 3
retry_delay == 1

InitThread ==
    [pc |-> "idle", retry_count |-> 0, attempts |-> 0, sleeps |-> <<>>,
     last |-> "none", tok |-> 0, ref |-> 0, rd |-> 0, epoch |-> 0]

InitEmbedVars ==
    /\ tokens_used = [input |-> 0, total |-> 0]
    /\ dictGen = 0
    /\ th = [t \in Threads |-> InitThread]
    /\ calls = [t \in Threads |-> 0]
    /\ resets = 0
    /\ sure = 0
    /\ maybe = 0

\* the rate-limit branch retries while this holds
ShouldRetryBug(retry_count) == retry_count <= max_retries
ShouldRetry(retry_count) == retry_count < max_retries

\* wait_time before the next attempt
WaitTime(retry_count) == retry_delay * Pow2(retry_count)

\* embed_text(text) entered from outside (retry_count = 0)
EmbedCall(t) ==
    /\ th[t].pc \in {"idle", "returned", "raised"}
    /\ calls[t] < MaxCalls
    /\ calls' = [calls EXCEPT ![t] = @ + 1]
    /\ th' = [th EXCEPT ![t] = [InitThread EXCEPT !.pc = "request", !.epoch = dictGen]]
    /\ UNCHANGED <<tokens_used, dictGen, resets, sure, maybe>>
    /\ UNCHANGED <<ingestVars, queryVars, libVars>>

\* one self.client.embeddings.create(...) and the except clauses around it
EmbedAttempt(t) ==
    /\ th[t].pc = "request"
    /\ \E o \in Outcomes, n \in TokenCounts :
        LET me == [th[t] EXCEPT !.attempts = @ + 1, !.last = o] IN
        CASE o = "ok" ->
                /\ th' = [th EXCEPT ![t] = [me EXCEPT !.pc = "load_input", !.tok = n]]
                /\ IF th[t].epoch = dictGen
                     THEN sure' = sure + n /\ maybe' = maybe
                     ELSE maybe' = maybe + n /\ sure' = sure
          [] o = "rate_limit" /\ ShouldRetry(th[t].retry_count) ->
                \* time.sleep(wait_time); return self.embed_text(text, retry_count + 1)
                /\ th' = [th EXCEPT ![t] =
                            [me EXCEPT !.sleeps = Append(@, WaitTime(th[t].retry_count)),
                                       !.retry_count = @ + 1]]
                /\ UNCHANGED <<sure, maybe>>
          [] OTHER ->
                /\ th' = [th EXCEPT ![t] = [me EXCEPT !.pc = "raised"]]
                /\ UNCHANGED <<sure, maybe>>
    /\ UNCHANGED <<tokens_used, dictGen, calls, resets>>
    /\ UNCHANGED <<ingestVars, queryVars, libVars>>

\* _tokens_used[key] += tokens_used : LOAD_GLOBAL, BINARY_SUBSCR ...
LoadCounter(t, key, next) ==
    /\ th[t].pc = "load_" \o key
    /\ th' = [th EXCEPT ![t] = [@ EXCEPT !.pc = next, !.ref = dictGen,
                                         !.rd = tokens_used[key]]]
    /\ UNCHANGED <<tokens_used, dictGen, calls, resets, sure, maybe>>
    /\ UNCHANGED <<ingestVars, queryVars, libVars>>

\* ... INPLACE_ADD, STORE_SUBSCR on the dict object loaded before
StoreCounterValue(t, key) == th[t].rd + th[t].tok

StoreCounter(t, key, next) ==
    /\ th[t].pc = "store_" \o key
    /\ tokens_used' = IF th[t].ref = dictGen
                        THEN [tokens_used EXCEPT ![key] = StoreCounterValue(t, key)]
                        ELSE tokens_used
    /\ th' = [th EXCEPT ![t] = [@ EXCEPT !.pc = next, !.ref = 0, !.rd = 0]]
    /\ UNCHANGED <<dictGen, calls, resets, sure, maybe>>
    /\ UNCHANGED <<ingestVars, queryVars, libVars>>

LoadInput(t) == LoadCounter(t, "input", "store_input")
StoreInput(t) == StoreCounter(t, "input", "load_total")
LoadTotal(t) == LoadCounter(t, "total", "store_total")
StoreTotal(t) == StoreCounter(t, "total", "returned")

InUpdate(t) == th[t].pc \in {"load_input", "store_input", "load_total", "store_total"}

RECURSIVE SumTok(_)
SumTok(S) == IF S = {} THEN 0
             ELSE LET t == CHOOSE x \in S : TRUE IN th[t].tok + SumTok(S \ {t})

\* reset_token_counter: rebinds the global to a fresh dict
ResetTokenCounter ==
    /\ resets < MaxResets
    /\ resets' = resets + 1
    /\ dictGen' = dictGen + 1
    /\ tokens_used' = [input |-> 0, total |-> 0]
    /\ sure' = 0
    /\ maybe' = SumTok({t \in Threads : InUpdate(t)})
    /\ UNCHANGED <<th, calls>>
    /\ UNCHANGED <<ingestVars, queryVars, libVars>>

NextEmbed ==
    \/ \E t \in Threads : EmbedCall(t)
    \/ \E t \in Threads : EmbedAttempt(t)
    \/ \E t \in Threads : LoadInput(t)
    \/ \E t \in Threads : StoreInput(t)
    \/ \E t \in Threads : LoadTotal(t)
    \/ \E t \in Threads : StoreTotal(t)
    \/ ResetTokenCounter

-----------------------------------------------------------------------------
(* ingest_service.py : IngestionService.ingest_chapter                      *)
(* The content of a request is given by the texts of the chunks that        *)
(* DocumentChunker.chunk_by_headings cuts it into (one per H2 subsection).  *)

Procs == {"p1", "p2"}
Texts == {"A", "B"}
BookVersions == {"v1.0", "v2.0"}
Chapters == {"ch1"}
Sections == {"Introduction"}

MaxIngests == 2

Contents == {<<>>, <<"A">>, <<"B">>, <<"A", "A">>, <<"A", "B">>, <<"B", "A">>, <<"B", "B">>}

\* Column default of Document.book_version
HashSeeds == {1, 2}
DefaultBookVersion == "v1.0"

NoError == "none"

\* DocumentChunker.hash_content: SHA-256 of the exact text
hash_content(text) == <<"sha256", text>>

\* the chunk dicts chunk_by_headings returns, chunk_index counting from 0
chunk_by_headings(content, chapter, section) ==
    [i \in 1..Len(content) |->
        [chapter |-> chapter, content |-> content[i],
         content_hash |-> hash_content(content[i]), chunk_index |-> i - 1]]

\* chunk_id = f"{chapter}_{section}_{chunk['chunk_index']}"
ChunkId(chapter, section, chunk) == <<chapter, section, chunk.chunk_index>>

\* id=hash(vec_id) % (2**31): the built-in hash of a str is salted with a
\* seed drawn when the interpreter starts
PointId(vec_id) == <<"hash", hash_seed, vec_id>>

IngestResult(ingested, skipped, vectors_stored, total_chunks, error) ==
    [ingested |-> ingested, skipped |-> skipped, vectors_stored |-> vectors_stored,
     total_chunks |-> total_chunks, error |-> error]

IdleIngest ==
    [pc |-> "idle", chapter |-> "ch1", section |-> "Introduction", content |-> <<>>,
     book_version |-> "v1.0", new_chunks |-> <<>>, skipped |-> 0,
     result |-> IngestResult(0, 0, 0, 0, NoError), repeat |-> FALSE, wrote |-> FALSE,
     clean |-> FALSE, other_version |-> FALSE, twin |-> FALSE]

InitIngestVars ==
    /\ documents = {}
    /\ collection = {}
    /\ ing = [p \in Procs |-> IdleIngest]
    /\ ingests = 0
    /\ completed = {}
    /\ hash_seed = 1

\* existing_hashes: the hashes of the rows whose book_version is the request's
ExistingHashes(book_version) ==
    {d.content_hash : d \in {x \in documents : x.book_version = book_version}}

\* new_chunks: the chunks whose hash is not among the existing ones
NewChunks(chunks, existing) ==
    SelectSeq(chunks, LAMBDA c : c.content_hash \notin existing)

\* database.add_document: the row it inserts
DocumentRow(chapter, section, chunk, book_version) ==
    [content_hash |-> chunk.content_hash, vector_id |-> ChunkId(chapter, section, chunk),
     book_version |-> DefaultBookVersion]

\* the insert fails on a transient error or on the unique content_hash
AddDocumentOk(docs, row, transient) ==
    /\ ~transient
    /\ \A d \in docs : d.content_hash # row.content_hash

\* the loop over new_chunks: the rows after it and the ingested count
RECURSIVE AddDocuments(_, _, _, _, _)
AddDocuments(docs, count, rows, i, fails) ==
    IF i > Len(rows) THEN [docs |-> docs, ingested |-> count]
    ELSE IF AddDocumentOk(docs, rows[i], i \in fails)
         THEN AddDocuments(docs \cup {rows[i]}, count + 1, rows, i + 1, fails)
         ELSE AddDocuments(docs, count, rows, i + 1, fails)

\* the point store_vectors_batch builds from one (vec_id, embedding, metadata);
\* content_hash stands for the point's vector (the embedding of the chunk text
\* with that hash), the payload itself carries no hash
Point(chapter, section, chunk, book_version) ==
    [id |-> PointId(ChunkId(chapter, section, chunk)),
     content_hash |-> chunk.content_hash,
     chapter |-> chunk.chapter, chunk_index |-> chunk.chunk_index,
     book_version |-> book_version]

\* client.upsert: a point replaces the point with the same id
Upsert(coll, points) ==
    {q \in coll : \A n \in points : n.id # q.id} \cup points

\* ingest_chapter returns: its locals die, the caller keeps the result
Finish(p, me, result, clean) ==
    /\ ing' = [ing EXCEPT ![p] = [IdleIngest EXCEPT !.pc = "done", !.result = result,
                                                   !.repeat = me.repeat,
                                                   !.wrote = me.wrote, !.clean = clean,
                                                   !.other_version = me.other_version,
                                                   !.twin = me.twin]]
    /\ completed' = IF clean THEN completed \cup {<<me.content, me.book_version>>}
                              ELSE completed

\* ingest_chapter up to the duplicate check (steps 1 and 2)
IngestCheck(p) ==
    /\ ing[p].pc \in {"idle", "done"}
    /\ ingests < MaxIngests
    /\ ingests' = ingests + 1
    /\ \E chapter \in Chapters, section \in Sections, content \in Contents,
          book_version \in BookVersions, dbOk \in BOOLEAN :
        LET chunks == chunk_by_headings(content, chapter, section)
            new_chunks == NewChunks(chunks, ExistingHashes(book_version))
            skipped_count == Len(chunks) - Len(new_chunks)
            me == [IdleIngest EXCEPT !.chapter = chapter, !.section = section,
                                     !.content = content, !.book_version = book_version,
                                     !.repeat = <<content, book_version>> \in completed,
                                     !.other_version =
                                         \E v \in BookVersions \ {book_version} :
                                             <<content, v>> \in completed,
                                     !.twin =
                                         \E q \in Procs \ {p} :
                                             /\ ing[q].pc = "embed"
                                             /\ ing[q].content = content
                                             /\ ing[q].book_version = book_version]
        IN  IF chunks = <<>>
              THEN Finish(p, me, IngestResult(0, 0, 0, 0, "No chunks generated"), FALSE)
            ELSE IF ~dbOk
              THEN Finish(p, me, IngestResult(0, 0, 0, 0, "db error"), FALSE)
            ELSE IF new_chunks = <<>>
              THEN Finish(p, [me EXCEPT !.skipped = skipped_count],
                          IngestResult(0, skipped_count, 0, Len(chunks), NoError), TRUE)
            ELSE /\ ing' = [ing EXCEPT ![p] = [me EXCEPT !.pc = "embed",
                                                       !.new_chunks = new_chunks,
                                                       !.skipped = skipped_count]]
                 /\ UNCHANGED completed
    /\ UNCHANGED <<documents, collection, hash_seed>>
    /\ UNCHANGED <<embedVars, queryVars, libVars>>

\* ingest_chapter from the embedding on (steps 3 and 4)
IngestStore(p) ==
    /\ ing[p].pc = "embed"
    /\ \E embedOk \in BOOLEAN, fails \in SUBSET (1..Len(ing[p].new_chunks)),
          vsOk \in BOOLEAN :
        LET me == ing[p]
            total == Len(me.content)
            rows == [i \in 1..Len(me.new_chunks) |->
                        DocumentRow(me.chapter, me.section, me.new_chunks[i], me.book_version)]
            points == {Point(me.chapter, me.section, me.new_chunks[i], me.book_version) :
                        i \in 1..Len(me.new_chunks)}
            added == AddDocuments(documents, 0, rows, 1, fails)
        IN  IF ~embedOk
              THEN /\ Finish(p, me, IngestResult(0, me.skipped, 0, total, "Embedding failed"),
                             FALSE)
                   /\ UNCHANGED <<documents, collection>>
            ELSE /\ documents' = added.docs
                 /\ collection' = IF vsOk THEN Upsert(collection, points) ELSE collection
                 /\ Finish(p, [me EXCEPT !.wrote = (added.docs # documents) \/ vsOk],
                           IngestResult(added.ingested, me.skipped,
                                        IF vsOk THEN Len(me.new_chunks) ELSE 0,
                                        total, NoError),
                           fails = {} /\ vsOk)
    /\ UNCHANGED <<ingests, hash_seed>>
    /\ UNCHANGED <<embedVars, queryVars, libVars>>

\* the service is stopped between requests and started again: the database
\* and the collection outlive it, the interpreter's hash seed is drawn anew
Restart ==
    /\ \A p \in Procs : ing[p].pc # "embed"
    /\ hash_seed' \in HashSeeds
    /\ UNCHANGED <<documents, collection, ing, ingests, completed>>
    /\ UNCHANGED <<embedVars, queryVars, libVars>>

NextIngest ==
    \/ \E p \in Procs : IngestCheck(p)
    \/ \E p \in Procs : IngestStore(p)
    \/ Restart

-----------------------------------------------------------------------------
(* main.py, simple_main.py, agent.py : the query entry points               *)
(* retrieval_service.py, vector_store.py, validation.py                     *)
(* A handler runs from its first to its last statement without yielding to  *)
(* another request (its calls are blocking), so a request is one step.      *)
(* Similarities are in percent (0.5 is 50, 0.75 is 75).                     *)

Queries == {"", " ", "q"}
Modes == {"full_book", "selected_text"}
SelectedTexts == {"none", "blank", "short", "many_tokens", "too_long"}
TopKs == {2, 5}
SessionIds == {"s1"}

MaxQueries == 2

default_top_k == 5
default_min_similarity == 50
confidence_threshold == 75

NoAnswer == "none"
NoRelevantAnswer ==
    "I couldn't find relevant information in the course materials to answer your question."
FallbackAnswer ==
    "I couldn't find an answer to your question in the selected text. Try selecting more context or switching to full-book mode."
SimpleNoResultsAnswer ==
    "I couldn't find relevant information in the knowledge base to answer your question. Please try rephrasing or ask a different question."
SimpleErrorAnswer ==
    "Sorry, there was an issue processing your question. Please try again later."
SimpleGenerationApology ==
    "Sorry, I couldn't generate a response at this time. Please try again later."

\* str.strip() on the modelled strings
strip(s) == IF s \in {"", " "} THEN "" ELSE s

\* A dict returned by query_vectors, {"id", "score", **payload}.  Flat is the
\* payload ingest_chapter writes (chapter, section, chunk_index, book_version,
\* doc_id at the top level); Scored is a payload that itself carries the keys
\* retrieve reads (similarity_score, metadata, content).
Flat(id, score) ==
    [id |-> id, score |-> score, has_similarity_score |-> FALSE, similarity_score |-> 0,
     has_metadata |-> FALSE, doc_id |-> id, chapter |-> "ch1",
     section |-> "Introduction", has_content |-> FALSE, content |-> ""]
Scored(id, score) ==
    [id |-> id, score |-> score, has_similarity_score |-> TRUE, similarity_score |-> score,
     has_metadata |-> TRUE, doc_id |-> id, chapter |-> "ch1",
     section |-> "Introduction", has_content |-> TRUE, content |-> "text"]

\* what the collection holds for a query, best score first
Candidates ==
    {<<>>,
     <<Flat("d1", 90)>>,
     <<Scored("d1", 40)>>,
     <<Scored("d1", 60)>>,
     <<Scored("d1", 90), Scored("d2", 60), Scored("d3", 60)>>,
     <<Scored("d1", 60), Flat("d2", 50), Scored("d3", 40)>>}

\* result.get("metadata", {}).get(field, default)
MetadataGet(result, field, default) ==
    IF result.has_metadata THEN result[field] ELSE default

\* result.get("content", "")
ContentGet(result) == IF result.has_content THEN result.content ELSE ""

\* RetrievedChunk(...) built from one search result
RetrievedChunk(result) ==
    [doc_id |-> MetadataGet(result, "doc_id", "unknown"),
     chapter |-> MetadataGet(result, "chapter", "Unknown"),
     section |-> MetadataGet(result, "section", "Unknown"),
     content |-> ContentGet(result),
     similarity_score |-> result.similarity_score]

\* QdrantVectorStore.query_vectors: client.search with limit k, then the debug
\* line that reads scored_results[0]
query_vectors(found, k, searchOk) ==
    IF ~searchOk THEN [raised |-> "ConnectionError", results |-> <<>>]
    ELSE LET results == SubSeq(found, 1, IF k < Len(found) THEN k ELSE Len(found))
         IN  IF results = <<>> THEN [raised |-> "IndexError", results |-> <<>>]
             ELSE [raised |-> NoError, results |-> results]

\* a loop that keeps the results at or below the threshold instead
RECURSIVE RetrieveLoopBug(_, _, _, _, _)
RetrieveLoopBug(results, i, k, min_similarity, acc) ==
    IF i > Len(results) THEN [raised |-> NoError, chunks |-> acc]
    ELSE IF ~results[i].has_similarity_score THEN [raised |-> "KeyError", chunks |-> <<>>]
    ELSE IF results[i].similarity_score > min_similarity
         THEN RetrieveLoopBug(results, i + 1, k, min_similarity, acc)
    ELSE IF Len(acc) + 1 >= k
         THEN [raised |-> NoError, chunks |-> Append(acc, RetrievedChunk(results[i]))]
    ELSE RetrieveLoopBug(results, i + 1, k, min_similarity,
                         Append(acc, RetrievedChunk(results[i])))

\* the loop of RetrieverAgent.retrieve over the search results (step 4)
RECURSIVE RetrieveLoop(_, _, _, _, _)
RetrieveLoop(results, i, k, min_similarity, acc) ==
    IF i > Len(results) THEN [raised |-> NoError, chunks |-> acc]
    ELSE IF ~results[i].has_similarity_score THEN [raised |-> "KeyError", chunks |-> <<>>]
    ELSE IF results[i].similarity_score < min_similarity
         THEN RetrieveLoop(results, i + 1, k, min_similarity, acc)
    ELSE IF Len(acc) + 1 >= k
         THEN [raised |-> NoError, chunks |-> Append(acc, RetrievedChunk(results[i]))]
    ELSE RetrieveLoop(results, i + 1, k, min_similarity,
                      Append(acc, RetrievedChunk(results[i])))

\* RetrieverAgent(top_k, min_similarity)
RetrieverAgent(top_k, min_similarity) ==
    [created |-> TRUE, top_k |-> top_k, min_similarity |-> min_similarity]
NoRetriever == [created |-> FALSE, top_k |-> 0, min_similarity |-> 0]

\* get_retriever(top_k): the module-level singleton
get_retriever(instance, top_k) ==
    IF ~instance.created THEN RetrieverAgent(top_k, default_min_similarity) ELSE instance

\* RetrieverAgent.retrieve(query, book_version, chapter_filter, mode): top_k
\* is not passed, so k = self.top_k
retrieve(self, estimator, embedOk, searchOk, found) ==
    LET k == self.top_k
        none == [raised |-> NoError, failure |-> NoError, chunks |-> <<>>, k |-> k,
                 min_similarity |-> self.min_similarity, embed_calls |-> 1,
                 search_calls |-> 0, search_limit |-> 0, candidates |-> <<>>]
    IN  IF ~embedOk
          THEN [none EXCEPT !.raised = "EmbeddingError", !.failure = "embedding"]
        ELSE IF ~estimator
          THEN [none EXCEPT !.raised = "AttributeError"]
        ELSE LET sr == query_vectors(found, k * 2, searchOk)
                 searched == [none EXCEPT !.search_calls = 1, !.search_limit = k * 2,
                                          !.candidates = found]
                 lp == RetrieveLoop(sr.results, 1, k, self.min_similarity, <<>>)
             IN  IF ~searchOk
                   THEN [searched EXCEPT !.raised = sr.raised, !.failure = "search"]
                 ELSE IF sr.raised # NoError
                   THEN [searched EXCEPT !.raised = sr.raised]
                 ELSE [searched EXCEPT !.raised = lp.raised, !.chunks = lp.chunks]

\* GenerationAgent.generate: what the provider returns.  sim is the cosine
\* similarity between the embedding of content and that of the selected text.
GenOutcomes ==
    {[ok |-> FALSE, content |-> NoAnswer, sim |-> 0, input_tokens |-> 0, output_tokens |-> 0],
     [ok |-> TRUE, content |-> "answer_far", sim |-> 60, input_tokens |-> 3, output_tokens |-> 1],
     [ok |-> TRUE, content |-> "answer_edge", sim |-> 75, input_tokens |-> 4, output_tokens |-> 2]}

\* validate_response_in_context(response, selected_text)
validate_response_in_context(sim, embedOk) ==
    IF ~embedOk THEN [is_valid |-> FALSE, confidence |-> 0]
    ELSE [is_valid |-> sim >= confidence_threshold, confidence |-> sim]

\* where the storing of an interaction may fail
PersistOutcomes == {"ok", "get_session", "add_session", "add_message"}

\* the body of step 4: get_session, add_session if there is none, add_message
StoreInteraction(sessions, session_id, answer, outcome) ==
    LET same == [sessions |-> sessions, stored |-> NoAnswer, failed |-> outcome,
                 raised |-> outcome]
    IN  IF outcome = "get_session" THEN same
        ELSE IF session_id \notin sessions /\ outcome = "add_session" THEN same
        ELSE IF outcome = "add_message"
          THEN [same EXCEPT !.sessions = sessions \cup {session_id}]
        ELSE [sessions |-> sessions \cup {session_id}, stored |-> answer,
              failed |-> NoError, raised |-> NoError]

\* step 4 inside its try/except Exception: the failure is logged, not raised
TryStoreInteractionBug(sessions, session_id, answer, outcome) ==
    StoreInteraction(sessions, session_id, answer, outcome)
TryStoreInteraction(sessions, session_id, answer, outcome) ==
    [StoreInteraction(sessions, session_id, answer, outcome) EXCEPT !.raised = NoError]

\* SourceChunk list of a response
Sources(chunks) ==
    [i \in 1..Len(chunks) |->
        [doc_id |-> chunks[i].doc_id, similarity_score |-> chunks[i].similarity_score,
         content |-> chunks[i].content]]
SelectedSource(selected_text) ==
    <<[doc_id |-> "selected_text", similarity_score |-> 100, content |-> selected_text]>>

\* what the caller gets: answer, sources and token counts
Payload(response, sources, input_tokens, output_tokens) ==
    [response |-> response, sources |-> sources, input_tokens |-> input_tokens,
     output_tokens |-> output_tokens]
NoPayload == Payload(NoAnswer, <<>>, 0, 0)

\* the record kept of the last request: the request, what the handler did and
\* what it returned (status 0: the call raised to its Python caller)
NoQuery ==
    [endpoint |-> "none", query |-> "", mode |-> "full_book", selected_text |-> "none",
     top_k |-> 0, session_id |-> "s1",
     status |-> 0, raised |-> NoError, body |-> NoPayload,
     k |-> 0, min_similarity |-> 0, embed_calls |-> 0, search_calls |-> 0,
     search_limit |-> 0, candidates |-> <<>>, failure |-> NoError,
     context |-> "none", generated |-> NoAnswer, sim |-> 0,
     validated |-> FALSE, is_valid |-> FALSE,
     persist |-> NoError, stored |-> NoAnswer, expected |-> NoPayload,
     stages |-> <<>>]

Request(endpoint, query, mode, selected_text, top_k, session_id) ==
    [NoQuery EXCEPT !.endpoint = endpoint, !.query = query, !.mode = mode,
                    !.selected_text = selected_text, !.top_k = top_k,
                    !.session_id = session_id]

\* the handler has run retrieve
Retrieved(run, r) ==
    [run EXCEPT !.k = r.k, !.min_similarity = r.min_similarity,
                !.embed_calls = r.embed_calls, !.search_calls = r.search_calls,
                !.search_limit = r.search_limit, !.candidates = r.candidates,
                !.failure = r.failure, !.stages = Append(run.stages, "RETRIEVE")]

\* raise HTTPException(status_code, ...)
HTTPException(run, status, raised) ==
    [run EXCEPT !.status = status, !.raised = raised]

\* return QueryResponse(...)
QueryResponse(run, response, sources, input_tokens, output_tokens) ==
    [run EXCEPT !.status = 200,
                !.body = Payload(response, sources, input_tokens, output_tokens)]

\* steps 4 and 5 of both main.py handlers: store, then answer
StoreAndRespond(run, p, answer, sources, gen) ==
    LET stored == [run EXCEPT !.persist = p.failed, !.stored = p.stored,
                              !.expected = Payload(answer, sources, gen.input_tokens,
                                                   gen.output_tokens),
                              !.stages = Append(run.stages, "PERSIST")]
    IN  IF p.raised # NoError THEN HTTPException(stored, 500, p.raised)
        ELSE QueryResponse(stored, answer, sources, gen.input_tokens, gen.output_tokens)

InitQueryVars ==
    /\ retriever_instance = NoRetriever
    /\ chat_sessions = {}
    /\ last = NoQuery
    /\ queries = 0

\* the handler returns: the globals it leaves behind
Return(run, retriever, sessions) ==
    /\ last' = run
    /\ retriever_instance' = retriever
    /\ chat_sessions' = sessions

\* main.py : POST /query
QueryContent ==
    /\ queries < MaxQueries
    /\ queries' = queries + 1
    /\ \E query \in Queries, mode \in Modes, top_k \in TopKs, session_id \in SessionIds,
          selected_text \in {"none", "blank", "short"} :
        LET req == Request("/query", query, mode, selected_text, top_k, session_id)
            retriever == get_retriever(retriever_instance, top_k)
        IN  IF strip(query) = ""
              THEN Return(HTTPException(req, 400, "HTTPException"),
                          retriever_instance, chat_sessions)
            ELSE \E embedOk \in BOOLEAN, searchOk \in BOOLEAN, found \in Candidates :
              LET r == retrieve(retriever, has_estimate_tokens, embedOk, searchOk, found)
                  run1 == Retrieved(req, r)
                  run2 == [run1 EXCEPT !.context = "retrieved",
                                       !.stages = run1.stages \o <<"ASSEMBLE_CONTEXT",
                                                                   "GENERATE">>]
              IN  IF r.raised # NoError
                    THEN Return(HTTPException(run1, 500, r.raised), retriever, chat_sessions)
                  ELSE IF r.chunks = <<>>
                    THEN Return(QueryResponse(run1, NoRelevantAnswer, <<>>, 0, 0),
                                retriever, chat_sessions)
                  ELSE \E gen \in GenOutcomes, outcome \in PersistOutcomes :
                    LET p == TryStoreInteraction(chat_sessions, session_id, gen.content,
                                                 outcome)
                        run3 == [run2 EXCEPT !.generated = gen.content, !.sim = gen.sim]
                    IN  IF ~gen.ok
                          THEN Return(HTTPException([run2 EXCEPT !.failure = "generation"],
                                                    500, "GenerationError"),
                                      retriever, chat_sessions)
                        ELSE Return(StoreAndRespond(run3, p, gen.content,
                                                    Sources(r.chunks), gen),
                                    retriever, p.sessions)
    /\ UNCHANGED has_estimate_tokens
    /\ UNCHANGED <<embedVars, ingestVars, libVars>>

\* the selected text after the token-length check of query_selected_text
Truncated(selected_text) ==
    IF selected_text = "many_tokens" THEN "truncated" ELSE selected_text

\* main.py : POST /query-selected-text
QuerySelectedText ==
    /\ queries < MaxQueries
    /\ queries' = queries + 1
    /\ \E query \in Queries, selected_text \in SelectedTexts, top_k \in {default_top_k},
          session_id \in SessionIds :
        LET req == Request("/query-selected-text", query, "selected_text", selected_text,
                           top_k, session_id)
            text == Truncated(selected_text)
        IN  IF strip(query) = "" \/ selected_text \in {"none", "blank"}
              THEN Return(HTTPException(req, 400, "HTTPException"),
                          retriever_instance, chat_sessions)
            ELSE IF selected_text = "too_long"
              THEN Return(HTTPException(req, 413, "HTTPException"),
                          retriever_instance, chat_sessions)
            ELSE IF ~has_estimate_tokens
              THEN Return(HTTPException(req, 500, "AttributeError"),
                          retriever_instance, chat_sessions)
            ELSE \E gen \in GenOutcomes, embedOk \in BOOLEAN, outcome \in PersistOutcomes :
              LET run2 == [req EXCEPT !.selected_text = text, !.context = "selected",
                                      !.stages = <<"GENERATE">>]
                  v == validate_response_in_context(gen.sim, embedOk)
                  answer == IF v.is_valid THEN gen.content ELSE FallbackAnswer
                  run3 == [run2 EXCEPT !.generated = gen.content, !.sim = gen.sim,
                                       !.validated = TRUE, !.is_valid = v.is_valid,
                                       !.stages = Append(run2.stages, "VALIDATE")]
                  p == TryStoreInteraction(chat_sessions, session_id, answer, outcome)
              IN  IF ~gen.ok
                    THEN Return(HTTPException([run2 EXCEPT !.failure = "generation"],
                                              500, "GenerationError"),
                                retriever_instance, chat_sessions)
                  ELSE Return(StoreAndRespond(run3, p, answer, SelectedSource(text), gen),
                              retriever_instance, p.sessions)
    /\ UNCHANGED has_estimate_tokens
    /\ UNCHANGED <<embedVars, ingestVars, libVars>>

\* the texts simple_main extracts from the search results
RetrievedTexts(results) ==
    SelectSeq([i \in 1..Len(results) |-> ContentGet(results[i])], LAMBDA t : t # "")

\* simple_main.py : POST /query
SimpleQueryContent ==
    /\ queries < MaxQueries
    /\ queries' = queries + 1
    /\ \E question \in Queries :
        LET req == Request("simple /query", question, "full_book", "none", default_top_k,
                           "s1")
        IN  IF strip(question) = ""
              THEN Return(HTTPException(req, 400, "HTTPException"),
                          retriever_instance, chat_sessions)
            ELSE \E embedOk \in BOOLEAN, searchOk \in BOOLEAN, found \in Candidates,
                    genOk \in BOOLEAN :
              LET sr == query_vectors(found, default_top_k, searchOk)
                  texts == RetrievedTexts(sr.results)
                  run1 == [req EXCEPT !.embed_calls = 1, !.stages = <<"RETRIEVE">>,
                                      !.failure = IF embedOk THEN NoError ELSE "embedding"]
                  run2 == [run1 EXCEPT !.search_calls = 1, !.search_limit = default_top_k,
                                       !.candidates = found,
                                       !.failure = IF searchOk THEN NoError ELSE "search"]
                  run3 == [run2 EXCEPT !.context = "retrieved",
                                       !.stages = <<"RETRIEVE", "ASSEMBLE_CONTEXT",
                                                    "GENERATE">>,
                                       !.failure = IF genOk THEN NoError ELSE "generation"]
              IN  IF ~embedOk
                    THEN Return(QueryResponse(run1, SimpleErrorAnswer, <<>>, 0, 0),
                                retriever_instance, chat_sessions)
                  ELSE IF sr.raised # NoError
                    THEN Return(QueryResponse(run2, SimpleErrorAnswer, <<>>, 0, 0),
                                retriever_instance, chat_sessions)
                  ELSE IF texts = <<>>
                    THEN Return(QueryResponse(run2, SimpleNoResultsAnswer, <<>>, 0, 0),
                                retriever_instance, chat_sessions)
                  ELSE IF ~genOk
                    THEN Return(QueryResponse(run3, SimpleGenerationApology, <<>>, 0, 0),
                                retriever_instance, chat_sessions)
                  ELSE Return(QueryResponse([run3 EXCEPT !.generated = "answer_far"],
                                            "answer_far", <<>>, 0, 0),
                              retriever_instance, chat_sessions)
    /\ UNCHANGED has_estimate_tokens
    /\ UNCHANGED <<embedVars, ingestVars, libVars>>

\* agent.py : RAGAgent.process_query with a RetrieverAgent: the call
\* self.retriever.retrieve(query=, top_k=, min_similarity=) names a parameter
\* retrieve does not have, so it raises TypeError before any stage runs
ProcessQuery ==
    /\ queries < MaxQueries
    /\ queries' = queries + 1
    /\ \E query \in Queries, mode \in Modes, session_id \in SessionIds :
        LET selected_text == IF mode = "selected_text" THEN "short" ELSE "none"
            req == Request("process_query", query, mode, selected_text, default_top_k,
                           session_id)
        IN  Return([req EXCEPT !.raised = "TypeError"], retriever_instance, chat_sessions)
    /\ UNCHANGED has_estimate_tokens
    /\ UNCHANGED <<embedVars, ingestVars, libVars>>

NextQuery ==
    \/ QueryContent
    \/ QuerySelectedText
    \/ SimpleQueryContent
    \/ ProcessQuery

-----------------------------------------------------------------------------
(* embeddings.py, cohere_embeddings.py : embed_texts                        *)

Generators == {"EmbeddingGenerator", "CohereEmbeddingGenerator"}
BatchTexts == {"", " ", "a", "b"}
MaxBatch == 3

BatchInputs == UNION {[1..n -> BatchTexts] : n \in 0..MaxBatch}

\* the vector the provider computes for one text
Embedding(text) == <<"embedding", text>>

NoChunked == [content |-> <<>>, target_tokens |-> 0, chunks |-> <<>>, records |-> <<>>]
NoRanked == [found |-> <<>>, k |-> 0, lo |-> 0, hi |-> 0,
             low |-> [raised |-> NoError, chunks |-> <<>>],
             high |-> [raised |-> NoError, chunks |-> <<>>]]
NoAssembled == [called |-> FALSE, chunks |-> <<>>, agent_context |-> <<>>,
                retriever_context |-> <<>>, main_context |-> <<>>]

NoHeaded == [called |-> FALSE, doc |-> <<>>, chapter |-> "", section |-> "",
             chunks |-> <<>>]

NoTrimmed == [called |-> FALSE, words |-> <<>>, status |-> 0, passed |-> <<>>,
              passed_len |-> 0]

NoBatch == [generator |-> "none", texts |-> <<>>, raised |-> NoError, embeddings |-> <<>>]

\* [text for text in texts if text and text.strip()]
RECURSIVE FilterEmpty(_)
FilterEmpty(texts) ==
    IF texts = <<>> THEN <<>>
    ELSE IF strip(Head(texts)) = "" THEN FilterEmpty(Tail(texts))
    ELSE <<Head(texts)>> \o FilterEmpty(Tail(texts))

\* EmbeddingGenerator.embed_texts
OpenAIEmbedTexts(texts, apiOk) ==
    IF texts = <<>> THEN [raised |-> "ValueError", embeddings |-> <<>>]
    ELSE IF ~apiOk THEN [raised |-> "APIError", embeddings |-> <<>>]
    ELSE [raised |-> NoError,
          embeddings |-> [i \in 1..Len(texts) |-> Embedding(texts[i])]]

\* CohereEmbeddingGenerator.embed_texts
CohereEmbedTexts(texts, apiOk) ==
    LET kept == FilterEmpty(texts)
    IN  IF texts = <<>> THEN [raised |-> "ValueError", embeddings |-> <<>>]
        ELSE IF kept = <<>> THEN [raised |-> "ValueError", embeddings |-> <<>>]
        ELSE IF ~apiOk THEN [raised |-> "APIError", embeddings |-> <<>>]
        ELSE [raised |-> NoError,
              embeddings |-> [i \in 1..Len(kept) |-> Embedding(kept[i])]]

InitLibVars ==
    /\ batch = NoBatch
    /\ chunked = NoChunked
    /\ ranked = NoRanked
    /\ assembled = NoAssembled
    /\ headed = NoHeaded
    /\ trimmed = NoTrimmed

EmbedTexts ==
    /\ \E generator \in Generators, texts \in BatchInputs, apiOk \in BOOLEAN :
        LET r == IF generator = "CohereEmbeddingGenerator"
                   THEN CohereEmbedTexts(texts, apiOk)
                   ELSE OpenAIEmbedTexts(texts, apiOk)
        IN  batch' = [generator |-> generator, texts |-> texts,
                      raised |-> r.raised, embeddings |-> r.embeddings]
    /\ UNCHANGED <<chunked, ranked, assembled, headed, trimmed>>
    /\ UNCHANGED <<embedVars, ingestVars, queryVars>>

NextBatch == EmbedTexts

-----------------------------------------------------------------------------
(* chunking.py : chunk_by_tokens and the heading-less path of               *)
(* chunk_by_headings.  A text is the sequence of its characters.            *)

ChunkChars == {"a", ".", " ", "\n"}
MaxContentLen == 5
TargetTokens == {1}

ChunkContents == UNION {[1..n -> ChunkChars] : n \in 0..MaxContentLen}

IsSpace(c) == c \in {" ", "\n"}

\* str.strip()
RECURSIVE LStrip(_)
LStrip(s) == IF s # <<>> /\ IsSpace(Head(s)) THEN LStrip(Tail(s)) ELSE s
RECURSIVE RStrip(_)
RStrip(s) ==
    IF s # <<>> /\ IsSpace(s[Len(s)]) THEN RStrip(SubSeq(s, 1, Len(s) - 1)) ELSE s
StripChars(s) == RStrip(LStrip(s))

\* first index from i on that is not white space
RECURSIVE SkipSpace(_, _)
SkipSpace(s, i) == IF i <= Len(s) /\ IsSpace(s[i]) THEN SkipSpace(s, i + 1) ELSE i

\* re.split(r"(?<=[.!?])\s+", content)
RECURSIVE SplitSentences(_, _, _, _)
SplitSentences(s, i, cur, acc) ==
    IF i > Len(s) THEN Append(acc, cur)
    ELSE IF i > 1 /\ s[i - 1] = "." /\ IsSpace(s[i])
         THEN SplitSentences(s, SkipSpace(s, i), <<>>, Append(acc, cur))
    ELSE SplitSentences(s, i + 1, Append(cur, s[i]), acc)

\* content.split("\n")
RECURSIVE SplitLines(_, _, _, _)
SplitLines(s, i, cur, acc) ==
    IF i > Len(s) THEN Append(acc, cur)
    ELSE IF s[i] = "\n" THEN SplitLines(s, i + 1, <<>>, Append(acc, cur))
    ELSE SplitLines(s, i + 1, Append(cur, s[i]), acc)

\* content.split()
RECURSIVE SplitWords(_, _, _, _)
SplitWords(s, i, cur, acc) ==
    IF i > Len(s) THEN IF cur = <<>> THEN acc ELSE Append(acc, cur)
    ELSE IF IsSpace(s[i])
         THEN SplitWords(s, i + 1, <<>>, IF cur = <<>> THEN acc ELSE Append(acc, cur))
    ELSE SplitWords(s, i + 1, Append(cur, s[i]), acc)

\* the units chunk_by_tokens accumulates
Units(content) ==
    LET sentences == SplitSentences(content, 1, <<>>, <<>>)
    IN  IF Len(sentences) > 1 THEN sentences
        ELSE IF \E i \in 1..Len(content) : content[i] = "\n"
               THEN SplitLines(content, 1, <<>>, <<>>)
        ELSE SplitWords(content, 1, <<>>, <<>>)

\* the loop of chunk_by_tokens over the units, and the append after it
RECURSIVE Accumulate(_, _, _, _, _)
Accumulate(units, i, target_chars, current_chunk, chunks) ==
    IF i > Len(units)
      THEN IF current_chunk # <<>> THEN Append(chunks, StripChars(current_chunk))
           ELSE chunks
    ELSE LET test_chunk == current_chunk
                             \o (IF current_chunk # <<>> THEN <<" ">> ELSE <<>>)
                             \o units[i]
         IN  IF Len(test_chunk) <= target_chars
               THEN Accumulate(units, i + 1, target_chars, test_chunk, chunks)
             ELSE Accumulate(units, i + 1, target_chars, units[i],
                             IF current_chunk # <<>>
                               THEN Append(chunks, StripChars(current_chunk))
                               ELSE chunks)

\* for i in range(0, len(content), target_chars): content[i : i + target_chars].strip()
RECURSIVE ForceSplit(_, _, _, _)
ForceSplit(content, i, target_chars, chunks) ==
    IF i > Len(content) THEN chunks
    ELSE ForceSplit(content, i + target_chars, target_chars,
                    Append(chunks,
                           StripChars(SubSeq(content, i,
                                             IF i + target_chars - 1 > Len(content)
                                               THEN Len(content)
                                               ELSE i + target_chars - 1))))

\* DocumentChunker.chunk_by_tokens; TOKENS_PER_CHAR = 0.25
chunk_by_tokens(content, target_tokens) ==
    LET target_chars == target_tokens * 4
        chunks == Accumulate(Units(content), 1, target_chars, <<>>, <<>>)
    IN  IF chunks = <<>> /\ content # <<>>
          THEN ForceSplit(content, 1, target_chars, <<>>)
        ELSE chunks

\* chunk_by_headings on content that has no heading: one record per chunk of
\* chunk_by_tokens
HeadinglessChunks(content, target_tokens) ==
    LET sub_chunks == chunk_by_tokens(content, target_tokens)
    IN  [i \in 1..Len(sub_chunks) |->
            [content |-> sub_chunks[i], content_hash |-> hash_content(sub_chunks[i]),
             chunk_index |-> i - 1]]

\* one call per run
ChunkText ==
    /\ chunked = NoChunked
    /\ \E content \in ChunkContents, target_tokens \in TargetTokens :
        chunked' = [content |-> content, target_tokens |-> target_tokens,
                    chunks |-> chunk_by_tokens(content, target_tokens),
                    records |-> HeadinglessChunks(content, target_tokens)]
    /\ UNCHANGED <<batch, ranked, assembled, headed, trimmed>>
    /\ UNCHANGED <<embedVars, ingestVars, queryVars>>

NextChunk == ChunkText

-----------------------------------------------------------------------------
(* retrieval_service.py : retrieve under two values of min_similarity       *)

RankScores == {40, 60, 90}
RankTopKs == {1, 2}
Thresholds == {0, 50, 70, 100}
MaxFound == 5
DocIds == <<"d1", "d2", "d3", "d4", "d5", "d6">>

\* what the collection returns for the query, best score first; at most one
\* point has a payload without similarity_score
RankFound ==
    {[i \in 1..n |-> IF i = flat THEN Flat(DocIds[i], scores[i])
                     ELSE Scored(DocIds[i], scores[i])] :
        <<n, scores, flat>> \in
            {t \in UNION {{<<m, sc, f>> : sc \in [1..m -> RankScores], f \in 0..m} :
                          m \in 0..MaxFound} :
                \A i \in 1..(t[1] - 1) : t[2][i] >= t[2][i + 1]}}

\* one run of retrieve by an agent built with the given min_similarity; the
\* embedding and the search succeed
RankRun(found, k, min_similarity) ==
    LET r == retrieve(RetrieverAgent(k, min_similarity), TRUE, TRUE, TRUE, found)
    IN  [raised |-> r.raised, chunks |-> r.chunks]

\* one pair of runs per behaviour
RankTwice ==
    /\ ranked = NoRanked
    /\ \E found \in RankFound, k \in RankTopKs, lo \in Thresholds, hi \in Thresholds :
        /\ lo <= hi
        /\ ranked' = [found |-> found, k |-> k, lo |-> lo, hi |-> hi,
                      low |-> RankRun(found, k, lo),
                      high |-> RankRun(found, k, hi)]
    /\ UNCHANGED <<batch, chunked, assembled, headed, trimmed>>
    /\ UNCHANGED <<embedVars, ingestVars, queryVars>>

NextRank == RankTwice

-----------------------------------------------------------------------------
(* agent.py, retrieval_service.py, main.py : context assembly.  A string is *)
(* the sequence of its pieces; the empty string is the empty sequence.      *)

MaxContextChunks == 4

\* RetrievedChunk objects as retrieve returns them
ContextChunk(chapter, section, subsection, content, similarity_score) ==
    [chapter |-> chapter, section |-> section, subsection |-> subsection,
     content |-> content, similarity_score |-> similarity_score]

ChunkPool ==
    {ContextChunk("ch1", "Introduction", "", "t1", 90),
     ContextChunk("ch2", "Setup", "Install", "t2", 60),
     ContextChunk("ch3", "", "", "t3", 75)}

ContextInputs == UNION {[1..n -> ChunkPool] : n \in 0..MaxContextChunks}

\* one piece of a string
Piece(kind, source, chunk, text) ==
    [kind |-> kind, source |-> source, chapter |-> chunk.chapter,
     section |-> chunk.section, subsection |-> chunk.subsection,
     score |-> chunk.similarity_score, text |-> text]

NoChunk == ContextChunk("", "", "", "", 0)
Text(text) == IF text = "" THEN <<>> ELSE <<Piece("text", 0, NoChunk, text)>>

AgentSentinel == Text("No relevant context found in the knowledge base.")

\* sep.join(parts)
RECURSIVE Join(_, _)
Join(parts, sep) ==
    IF parts = <<>> THEN <<>>
    ELSE IF Len(parts) = 1 THEN parts[1]
    ELSE parts[1] \o Text(sep) \o Join(Tail(parts), sep)

\* f"[Source {i}: {chapter}[ - {section}][ - {subsection}]] (Relevance: {score:.1%})"
AgentHeader(i, chunk) == <<Piece("Relevance", i, chunk, "")>>

\* f"[Source {i}: {chapter} > {section}[ > {subsection}] (sim: {score:.2f})]"
SimHeader(i, chunk) == <<Piece("sim", i, chunk, "")>>

\* the loop of _assemble_context: header, content and "" for each chunk
RECURSIVE AgentParts(_, _)
AgentParts(chunks, i) ==
    IF i > Len(chunks) THEN <<>>
    ELSE <<AgentHeader(i, chunks[i]), Text(chunks[i].content), Text("")>>
            \o AgentParts(chunks, i + 1)

\* RAGAgent._assemble_context
assemble_context(chunks) ==
    IF chunks = <<>> THEN AgentSentinel ELSE Join(AgentParts(chunks, 1), "\n")

\* the loop over enumerate(chunks, 1) that builds context_parts
RECURSIVE ContextPartsBug(_, _)
ContextPartsBug(chunks, i) ==
    IF i > Len(chunks) THEN <<>>
    ELSE LET j == Len(chunks) + 1 - i
         IN  <<SimHeader(i, chunks[j]) \o Text("\n") \o Text(chunks[j].content)>>
                \o ContextPartsBug(chunks, i + 1)

RECURSIVE ContextParts(_, _)
ContextParts(chunks, i) ==
    IF i > Len(chunks) THEN <<>>
    ELSE <<SimHeader(i, chunks[i]) \o Text("\n") \o Text(chunks[i].content)>>
            \o ContextParts(chunks, i + 1)

\* RetrieverAgent.retrieve_with_context after retrieve has returned chunks
retrieve_with_context(chunks) == Join(ContextParts(chunks, 1), "\n\n")

\* main.query_content, steps 1 and 2: an empty chunk list is answered before
\* any context is built
QueryContentContext(chunks) ==
    IF chunks = <<>> THEN [assembled |-> FALSE, context |-> <<>>]
    ELSE [assembled |-> TRUE, context |-> Join(ContextParts(chunks, 1), "\n\n")]

\* one assembly per behaviour
AssembleContext ==
    /\ ~assembled.called
    /\ \E chunks \in ContextInputs :
        assembled' = [called |-> TRUE, chunks |-> chunks,
                      agent_context |-> assemble_context(chunks),
                      retriever_context |-> retrieve_with_context(chunks),
                      main_context |-> QueryContentContext(chunks).context]
    /\ UNCHANGED <<batch, chunked, ranked, headed, trimmed>>
    /\ UNCHANGED <<embedVars, ingestVars, queryVars>>

NextContext == AssembleContext

-----------------------------------------------------------------------------
(* chunking.py : chunk_by_headings.  A document is the sequence of its      *)
(* lines; every line is a level-1 heading, a level-2 heading or body text,  *)
(* and the whole document is within the chunk budget.                       *)

MaxLines == 4

DocLines ==
    {[kind |-> "h1", text |-> "Intro"], [kind |-> "h2", text |-> "Setup"],
     [kind |-> "body", text |-> "ROS 2 is a robotics middleware."],
     [kind |-> "body", text |-> "Nodes exchange messages."]}

\* the two nested loops over re.split by "# " and by "## ": a chunk is made of
\* each level-2 subsection that lies in a level-1 section, and of nothing else
RECURSIVE ScanHeadings(_, _, _, _, _, _, _)
ScanHeadings(doc, i, chapter, section_title, subsection_title, body, chunks) ==
    LET flushed ==
            IF subsection_title = "" THEN chunks
            ELSE Append(chunks,
                        [chapter |-> chapter, section |-> section_title,
                         subsection |-> subsection_title,
                         content |-> <<[kind |-> "h3", text |-> subsection_title]>> \o body,
                         chunk_index |-> Len(chunks)])
    IN  IF i > Len(doc) THEN flushed
        ELSE IF doc[i].kind = "h1"
          THEN ScanHeadings(doc, i + 1, chapter, doc[i].text, "", <<>>, flushed)
        ELSE IF doc[i].kind = "h2"
          THEN ScanHeadings(doc, i + 1, chapter, section_title,
                            IF section_title = "" THEN "" ELSE doc[i].text, <<>>, flushed)
        ELSE ScanHeadings(doc, i + 1, chapter, section_title, subsection_title,
                          IF subsection_title = "" THEN body ELSE Append(body, doc[i]),
                          chunks)

\* DocumentChunker.chunk_by_headings: the heading chunks, or when there is
\* none the whole content through chunk_by_tokens as plain text (one chunk,
\* the content being within the budget)
HeadingChunks(doc, chapter, section) ==
    LET chunks == ScanHeadings(doc, 1, chapter, "", "", <<>>, <<>>)
        all == IF chunks # <<>> THEN chunks
               ELSE IF doc = <<>> THEN <<>>
               ELSE <<[chapter |-> chapter, section |-> section, subsection |-> "",
                       content |-> doc, chunk_index |-> 0]>>
    IN  [i \in 1..Len(all) |->
            [chapter |-> all[i].chapter, section |-> all[i].section,
             subsection |-> all[i].subsection, content |-> all[i].content,
             content_hash |-> hash_content(all[i].content),
             chunk_index |-> all[i].chunk_index]]

\* one call per behaviour
ChunkHeadings ==
    /\ ~headed.called
    /\ \E doc \in UNION {[1..n -> DocLines] : n \in 0..MaxLines},
          chapter \in {"Intro", "Module 1"}, section \in Sections :
        headed' = [called |-> TRUE, doc |-> doc, chapter |-> chapter,
                   section |-> section,
                   chunks |-> HeadingChunks(doc, chapter, section)]
    /\ UNCHANGED <<batch, chunked, ranked, assembled, trimmed>>
    /\ UNCHANGED <<embedVars, ingestVars, queryVars>>

-----------------------------------------------------------------------------
(* main.py : the length checks of query_selected_text.  A selected text is  *)
(* the sequence of the lengths of its words, one space between two words.   *)
(* The two maxima of config.py are scaled down by 1000.                     *)

max_selected_text_tokens == 2
max_selected_text_characters == 10
WordLengths == {1, 2, 6}
MaxWords == 4

\* len(selected_text)
RECURSIVE TextLen(_)
TextLen(words) ==
    IF words = <<>> THEN 0
    ELSE IF Len(words) = 1 THEN words[1]
    ELSE words[1] + 1 + TextLen(Tail(words))

\* CohereEmbeddingGenerator.estimate_tokens: max(1, len(text.split()))
estimate_tokens(words) == IF Len(words) < 1 THEN 1 ELSE Len(words)

\* selected_text[:cut], as the words and pieces of words it holds
RECURSIVE Prefix(_, _)
Prefix(words, cut) ==
    IF words = <<>> \/ cut <= 0 THEN <<>>
    ELSE IF words[1] >= cut THEN <<cut>>
    ELSE <<words[1]>> \o Prefix(Tail(words), cut - words[1] - 1)

\* query_selected_text from the character check to the call of generate
CheckSelectedText ==
    /\ ~trimmed.called
    /\ \E words \in UNION {[1..n -> WordLengths] : n \in 1..MaxWords} :
        LET tokens == estimate_tokens(words)
            cut == (TextLen(words) * max_selected_text_tokens) \div tokens
        IN  trimmed' =
              IF TextLen(words) > max_selected_text_characters
                THEN [called |-> TRUE, words |-> words, status |-> 413,
                      passed |-> <<>>, passed_len |-> 0]
              ELSE IF tokens > max_selected_text_tokens
                THEN [called |-> TRUE, words |-> words, status |-> 200,
                      passed |-> Prefix(words, cut),
                      passed_len |-> IF cut < TextLen(words) THEN cut ELSE TextLen(words)]
              ELSE [called |-> TRUE, words |-> words, status |-> 200,
                    passed |-> words, passed_len |-> TextLen(words)]
    /\ UNCHANGED <<batch, chunked, ranked, assembled, headed>>
    /\ UNCHANGED <<embedVars, ingestVars, queryVars>>

-----------------------------------------------------------------------------
(* Specifications *)

InitEmbed ==
    InitEmbedVars /\ InitIngestVars /\ InitQueryVars /\ InitLibVars
    /\ has_estimate_tokens = FALSE

SpecEmbed == InitEmbed /\ [][NextEmbed]_vars

InitIngest ==
    InitEmbedVars /\ InitIngestVars /\ InitQueryVars /\ InitLibVars
    /\ has_estimate_tokens = FALSE

SpecIngest == InitIngest /\ [][NextIngest]_vars

InitQuery ==
    InitEmbedVars /\ InitIngestVars /\ InitQueryVars /\ InitLibVars
    /\ has_estimate_tokens \in BOOLEAN

SpecQuery == InitQuery /\ [][NextQuery]_vars

SpecBatch == InitEmbed /\ [][NextBatch]_vars

SpecChunk == InitEmbed /\ [][NextChunk]_vars

SpecRank == InitEmbed /\ [][NextRank]_vars

SpecContext == InitEmbed /\ [][NextContext]_vars

SpecHeadings == InitEmbed /\ [][ChunkHeadings]_vars

SpecTruncate == InitEmbed /\ [][CheckSelectedText]_vars

-----------------------------------------------------------------------------
(* Properties of SpecEmbed *)

AllEmbedDone == \A t \in Threads : th[t].pc \in {"idle", "returned", "raised"}

\* C7: once every embedding call has finished, each usage counter equals the
\* sum of the token counts of the successful calls made since the last reset
\* (a call that overlaps the reset may be counted or not): no update is lost.
C7_CounterExact ==
    AllEmbedDone =>
        /\ sure <= tokens_used.input /\ tokens_used.input <= sure + maybe
        /\ sure <= tokens_used.total /\ tokens_used.total <= sure + maybe

\* C8 as stated: a call is attempted at most 3 times in total.
C8_AtMostThreeAttempts == \A t \in Threads : th[t].attempts <= 3

\* C8 amended: a call is attempted at most max_retries + 1 = 4 times in total
\* (the first attempt plus 3 retries); the delays before the retries start at
\* retry_delay and double each time; a call that is still rate-limited on its
\* last attempt fails; a non-transient error ends the call at once.
C8_RetryBudget ==
    \A t \in Threads :
        LET c == th[t] IN
        /\ c.attempts <= max_retries + 1
        /\ c.retry_count <= max_retries
        /\ Len(c.sleeps) = c.retry_count
        /\ c.attempts = c.retry_count + (IF c.pc \in {"idle", "request"} THEN 0 ELSE 1)
        /\ (c.sleeps # <<>> => c.sleeps[1] = retry_delay)
        /\ \A i \in 1..(Len(c.sleeps) - 1) : c.sleeps[i + 1] = 2 * c.sleeps[i]
        /\ (c.last \in {"connection", "other"} => c.pc = "raised")
        /\ (c.last = "rate_limit" /\ c.pc = "raised" => c.attempts = max_retries + 1)

C8_Witness ==
    \E t \in Threads :
        /\ th[t].pc = "raised" /\ th[t].last = "rate_limit"
        /\ th[t].attempts = 4 /\ th[t].sleeps = <<1, 2, 4>>

-----------------------------------------------------------------------------
(* Properties of SpecIngest *)

\* C2: the collection never holds two points with the same content_hash for
\* the same book_version.
C2_UniqueHashPerVersion ==
    \A q1, q2 \in collection :
        (q1.content_hash = q2.content_hash /\ q1.book_version = q2.book_version)
            => q1 = q2

\* C3: an ingest of content that an earlier ingest under the same
\* book_version has already completed, and that itself meets no database,
\* provider or vector-store failure, reports ingested = 0 and
\* skipped = len(chunks), and stores nothing.
C3_ReingestIsNoOp ==
    \A p \in Procs :
        (ing[p].pc = "done" /\ ing[p].repeat /\ ing[p].clean) =>
            /\ ing[p].result.ingested = 0
            /\ ing[p].result.skipped = ing[p].result.total_chunks
            /\ ~ing[p].wrote

\* C22: while no ingest is between its embedding and its return, every row of
\* the document table has the vector of its chunk in the collection, and
\* every point of the collection has a row.
C22_StoresAgree ==
    (\A p \in Procs : ing[p].pc # "embed") =>
        /\ \A d \in documents :
              \E q \in collection :
                  q.content_hash = d.content_hash /\ q.id[3] = d.vector_id
        /\ \A q \in collection :
              \E d \in documents :
                  q.content_hash = d.content_hash /\ q.id[3] = d.vector_id

\* C25: when the only two ingests so far were of the same content and
\* book_version, the second having started before the first had stored
\* anything, and neither met a failure, their ingested counts sum to the
\* number of chunks and the collection and the table hold one entry per
\* content hash.
C25_ConcurrentTwinsStoreOnce ==
    \A p, q \in Procs :
        (/\ p # q /\ ingests = 2
         /\ ing[p].pc = "done" /\ ing[q].pc = "done"
         /\ ing[p].twin /\ ing[p].clean /\ ing[q].clean)
            => /\ ing[p].result.ingested + ing[q].result.ingested
                    = ing[p].result.total_chunks
               /\ \A x, y \in collection : x.content_hash = y.content_hash => x = y
               /\ \A x, y \in documents : x.content_hash = y.content_hash => x = y
               /\ {x.content_hash : x \in collection} = {x.content_hash : x \in documents}

\* C27: no step removes a point from the collection or replaces it by the
\* point of a chunk with a different content hash.
C27_PointsNeverOverwritten ==
    [][\A q \in collection :
          \E n \in collection' : n.id = q.id /\ n.content_hash = q.content_hash]_vars

-----------------------------------------------------------------------------
(* Properties of SpecQuery *)

HasCouldntFind(answer) ==
    answer \in {NoRelevantAnswer, FallbackAnswer, SimpleNoResultsAnswer}

BelowFloor(candidates) ==
    \A i \in 1..Len(candidates) :
        /\ candidates[i].has_similarity_score
        /\ candidates[i].similarity_score < default_min_similarity

\* C1: a selected-text request whose generated answer the validator judges
\* not grounded (similarity to the selected text below the threshold) is
\* answered with the fixed fallback message, through every entry point.
C1_UngroundedNeverReturned ==
    (/\ last.mode = "selected_text"
     /\ last.status = 200
     /\ last.generated # NoAnswer
     /\ ~validate_response_in_context(last.sim, TRUE).is_valid)
        => last.body.response = FallbackAnswer

\* C4: a query that met a failure of embedding, vector search or generation
\* still gets a normal response (status 200) carrying an answer string.
C4_NeverHardFailure ==
    last.failure \in {"embedding", "search", "generation"}
        => (last.status = 200 /\ last.body.response # NoAnswer)

\* C5: when the search ran without a provider failure and the index held no
\* candidate, or only candidates below the similarity floor, the query
\* succeeds with a "couldn't find" answer and no sources.
C5_EmptyRetrievalAnswers ==
    (/\ last.search_calls = 1
     /\ last.failure = NoError
     /\ BelowFloor(last.candidates))
        => /\ last.status = 200
           /\ HasCouldntFind(last.body.response)
           /\ last.body.sources = <<>>

\* C6: a request in selected-text mode that is answered has embedded no
\* query and searched no index, and what it passed to generation is the
\* selected text alone.
C6_SelectedTextSkipsRetrieval ==
    (last.mode = "selected_text" /\ last.status = 200)
        => /\ last.embed_calls = 0
           /\ last.search_calls = 0
           /\ (last.generated # NoAnswer => last.context = "selected")

\* C9: the retrieval of an answered /query request applies the top_k of that
\* request (2 * top_k candidates asked for, at most top_k chunks returned) and
\* the default min_similarity, whatever earlier requests asked for.
C9_PerRequestTopK ==
    (last.endpoint = "/query" /\ last.status = 200 /\ last.search_calls = 1)
        => /\ last.k = last.top_k
           /\ last.search_limit = 2 * last.top_k
           /\ Len(last.body.sources) <= last.top_k
           /\ last.min_similarity = default_min_similarity

\* C10: a request whose interaction could not be stored (session lookup,
\* session creation or message insert failed) still gets status 200 with the
\* answer, sources and token counts it would have got had the storing
\* succeeded.
C10_PersistenceFailureSwallowed ==
    last.persist # NoError
        => (last.status = 200 /\ last.body = last.expected)

C10_Witness ==
    /\ last.endpoint = "/query"
    /\ last.persist = "add_message"
    /\ last.status = 200
    /\ last.body.response = "answer_edge"
    /\ last.body.sources # <<>>

\* C11: a /query-selected-text request with a non-empty query whose selected
\* text is over the character or the token maximum, and that meets no provider
\* failure, is answered (status 200) with the text truncated.
C11_OverLengthTruncated ==
    (/\ last.endpoint = "/query-selected-text"
     /\ strip(last.query) # ""
     /\ last.selected_text \in {"too_long", "many_tokens", "truncated"}
     /\ last.failure = NoError
     /\ has_estimate_tokens)
        => /\ last.status = 200
           /\ last.body.response # NoAnswer
           /\ last.selected_text = "truncated"

\* C12: an HTTP query whose query string is empty or whitespace-only, or
\* that is in selected-text mode with no or blank selected text, is rejected
\* with status 400 and no stage has run: nothing embedded, searched,
\* generated, validated or stored.
C12_InvalidInputRejectedFirst ==
    (/\ last.endpoint \in {"/query", "/query-selected-text", "simple /query"}
     /\ \/ strip(last.query) = ""
        \/ (last.mode = "selected_text" /\ last.selected_text \in {"none", "blank"}))
        => /\ last.status = 400
           /\ last.stages = <<>>
           /\ last.embed_calls = 0 /\ last.search_calls = 0
           /\ last.generated = NoAnswer /\ ~last.validated
           /\ last.stored = NoAnswer

\* C13: every finished ingest that met a failure (no chunks, database,
\* embedding or storage failure) returns a result whose error field is set.
C13_FailureCarriesError ==
    \A p \in Procs :
        (ing[p].pc = "done" /\ ~ing[p].clean) => ing[p].result.error # NoError

\* C14: an ingest that meets no database, provider or vector-store failure,
\* of content an earlier ingest completed under a different book_version
\* only, skips nothing and stores a document for every chunk.
C14_OtherVersionNotSkipped ==
    \A p \in Procs :
        (/\ ing[p].pc = "done" /\ ing[p].clean
         /\ ing[p].other_version /\ ~ing[p].repeat)
            => /\ ing[p].result.skipped = 0
               /\ ing[p].result.ingested = ing[p].result.total_chunks

\* C15: the collection never holds two points for the same logical chunk
\* (chapter, section, chunk_index): a repeated upsert overwrites.
C15_OnePointPerChunk ==
    \A q1, q2 \in collection :
        (q1.chapter = q2.chapter /\ q1.chunk_index = q2.chunk_index
         /\ q1.id[3] = q2.id[3])
            => q1.id = q2.id

\* the place of a stage in START, RETRIEVE, ASSEMBLE_CONTEXT, GENERATE,
\* VALIDATE, DONE (storing the interaction is part of DONE)
StageRank(stage) ==
    CASE stage = "RETRIEVE" -> 1
      [] stage = "ASSEMBLE_CONTEXT" -> 2
      [] stage = "GENERATE" -> 3
      [] stage = "VALIDATE" -> 4
      [] stage = "PERSIST" -> 5

\* C24: a request to /query or /query-selected-text runs its stages in the
\* order RETRIEVE, ASSEMBLE_CONTEXT, GENERATE, VALIDATE, each at most once,
\* and once an answer was generated VALIDATE has run exactly when the mode is
\* selected-text, before the answer is stored.
C24_StageOrder ==
    last.endpoint \in {"/query", "/query-selected-text"}
        => /\ \A i, j \in 1..Len(last.stages) :
                i < j => StageRank(last.stages[i]) < StageRank(last.stages[j])
           /\ last.generated # NoAnswer
                => ((\E i \in 1..Len(last.stages) : last.stages[i] = "VALIDATE")
                        <=> last.mode = "selected_text")

-----------------------------------------------------------------------------
(* Properties of SpecBatch *)

\* C16: an embed_texts call on a non-empty list that returns, returns as many
\* vectors as it was given texts, the i-th being the embedding of the i-th text.
C16_BatchAligned ==
    (batch.generator # "none" /\ batch.texts # <<>> /\ batch.raised = NoError)
        => /\ Len(batch.embeddings) = Len(batch.texts)
           /\ \A i \in 1..Len(batch.texts) :
                batch.embeddings[i] = Embedding(batch.texts[i])

-----------------------------------------------------------------------------
(* Properties of SpecChunk *)

\* C17: no chunk the chunker returns is the empty string, whatever the
\* content, the empty and the whitespace-only content included.
C17_NoEmptyChunk ==
    /\ \A i \in 1..Len(chunked.chunks) : chunked.chunks[i] # <<>>
    /\ \A i \in 1..Len(chunked.records) : chunked.records[i].content # <<>>

\* C28: every chunk chunk_by_tokens returns is at most target_chars long
\* (four characters for each target token).
C28_ChunkWithinBudget ==
    \A i \in 1..Len(chunked.chunks) :
        Len(chunked.chunks[i]) <= chunked.target_tokens * 4

-----------------------------------------------------------------------------
(* Properties of SpecRank *)

\* C18: over the same search results, the run with the higher min_similarity
\* returns no more chunks than the run with the lower one.
C18_MinSimilarityMonotone ==
    (ranked.k > 0 /\ ranked.lo <= ranked.hi)
        => Len(ranked.high.chunks) <= Len(ranked.low.chunks)

\* the lower threshold fills the k places, the higher one returns fewer chunks
\* but some, out of more than 2k candidates
C18_Witness ==
    /\ ranked.low.raised = NoError /\ ranked.high.raised = NoError
    /\ ranked.lo < ranked.hi
    /\ Len(ranked.found) > 2 * ranked.k
    /\ Len(ranked.low.chunks) = ranked.k
    /\ Len(ranked.high.chunks) > 0
    /\ Len(ranked.high.chunks) < Len(ranked.low.chunks)

\* the first k, in the order of the index, of the first 2k candidates whose
\* score is at least min_similarity
ExpectedIds(found, k, min_similarity) ==
    LET fetched == SubSeq(found, 1, IF 2 * k < Len(found) THEN 2 * k ELSE Len(found))
        kept == SelectSeq(fetched, LAMBDA r : r.score >= min_similarity)
        first == SubSeq(kept, 1, IF k < Len(kept) THEN k ELSE Len(kept))
    IN  [i \in 1..Len(first) |-> first[i].id]

\* C23: over a non-empty candidate list, retrieve returns the first top_k, in
\* the order of the index, of the first 2*top_k candidates whose score is at
\* least min_similarity.
C23_FirstKAboveFloor ==
    (ranked.k > 0 /\ ranked.found # <<>>)
        => /\ ranked.low.raised = NoError
           /\ [i \in 1..Len(ranked.low.chunks) |-> ranked.low.chunks[i].doc_id]
                = ExpectedIds(ranked.found, ranked.k, ranked.lo)

-----------------------------------------------------------------------------
(* Properties of SpecContext *)

\* C19: the context built from an empty chunk list is a non-empty string, in
\* _assemble_context and in retrieve_with_context alike.
C19_EmptyListGivesSentinel ==
    (assembled.called /\ assembled.chunks = <<>>)
        => /\ assembled.agent_context # <<>>
           /\ assembled.retriever_context # <<>>

IsHeader(piece) == piece.kind \in {"sim", "Relevance"}
IsContent(piece) ==
    piece.kind = "text" /\ piece.text \notin {"\n", "\n\n"} /\ <<piece>> # AgentSentinel

\* the k-th header of the context is "Source k" and describes the k-th
\* chunk, and the k-th content in the context is the k-th chunk's
InInputOrder(context, chunks) ==
    LET headers == SelectSeq(context, IsHeader)
        contents == SelectSeq(context, IsContent)
    IN  /\ Len(headers) = Len(chunks)
        /\ Len(contents) = Len(chunks)
        /\ \A i \in 1..Len(chunks) :
            /\ headers[i].source = i
            /\ headers[i].chapter = chunks[i].chapter
            /\ headers[i].section = chunks[i].section
            /\ headers[i].subsection = chunks[i].subsection
            /\ headers[i].score = chunks[i].similarity_score
            /\ contents[i].text = chunks[i].content

\* C20: every assembled context lists its sources in the order of the input
\* chunk list: Source i is the i-th input chunk, whatever the scores.
C20_SourcesInInputOrder ==
    assembled.called
        => /\ InInputOrder(assembled.agent_context, assembled.chunks)
           /\ InInputOrder(assembled.retriever_context, assembled.chunks)
           /\ InInputOrder(assembled.main_context, assembled.chunks)

\* three chunks or more, not in the order of their scores, were assembled
C20_Witness ==
    /\ assembled.called
    /\ Len(assembled.chunks) >= 3
    /\ assembled.chunks[1].similarity_score < assembled.chunks[2].similarity_score
    /\ assembled.chunks[3].similarity_score < assembled.chunks[2].similarity_score
    /\ assembled.main_context # <<>>

-----------------------------------------------------------------------------
(* Properties of SpecHeadings *)

\* C21: the document made of the line "# Intro" and one line of body text
\* yields exactly one chunk, whose chapter is "Intro" and whose content_hash
\* is not empty.
C21_IntroScenario ==
    (/\ headed.called
     /\ Len(headed.doc) = 2
     /\ headed.doc[1] = [kind |-> "h1", text |-> "Intro"]
     /\ headed.doc[2] = [kind |-> "body", text |-> "ROS 2 is a robotics middleware."])
        => /\ Len(headed.chunks) = 1
           /\ headed.chunks[1].chapter = "Intro"
           /\ headed.chunks[1].content_hash # hash_content(<<>>)

\* C30: every line of body text of the document, wherever it lies, is in the
\* content of some chunk.
C30_NoTextLost ==
    headed.called =>
        \A i \in 1..Len(headed.doc) :
            headed.doc[i].kind = "body" =>
                \E c \in 1..Len(headed.chunks) :
                    \E j \in 1..Len(headed.chunks[c].content) :
                        headed.chunks[c].content[j].text = headed.doc[i].text

-----------------------------------------------------------------------------
(* Properties of SpecTruncate *)

\* C26: the selected text passed to generation has at most
\* max_selected_text_tokens estimated tokens and at most
\* max_selected_text_characters characters.
C26_PassedTextWithinMaximum ==
    (trimmed.called /\ trimmed.status = 200)
        => /\ estimate_tokens(trimmed.passed) <= max_selected_text_tokens
           /\ trimmed.passed_len <= max_selected_text_characters

====
